---- MODULE Spec2Model ----
(***************************************************************************)
(* Model of quickwit-core/src/indexing/index.rs: index_data (the pipeline  *)
(* orchestrator) and reset_index (the overwrite protocol), together with   *)
(* the collaborators they call: the metastore, the blob store, the garbage *)
(* collector, the split builder (index_documents) and the split finalizer  *)
(* (finalize_split).                                                       *)
(***************************************************************************)
EXTENDS Integers, Sequences, FiniteSets, TLC

\* ------------------------------------------------------------------ bounds
MaxOld == 2          \* splits already Published before the first run
MaxThreads == 2      \* params.num_threads ranges over 1..MaxThreads
MaxRuns == 2         \* successive calls of index_data
SmallDocs == 2       \* input sizes 0..SmallDocs of the small configurations
ExtraDocs == 2       \* the long input has SPLIT_CHANNEL_SIZE + ExtraDocs lines
FilesPerSplit == 2   \* files of one split
IdStride == 100      \* split ids of run r are IdStride * r + first document

\* ------------------------------------------------------- program constants
SPLIT_CHANNEL_SIZE == 30

index_id == "wiki"
IndexUris == {"wiki", "file:///indexes/wiki"}

NoSplit == [id |-> 0, docs |-> {}]

VARIABLES
    params,       \* IndexDataParams and the input: index_uri, num_threads,
                  \* heap_docs (documents one split holds), num_docs, runs
    overwrite,    \* params.overwrite of the current call
    meta,         \* metastore, index index_id: split id -> [state, docs]
    storage,      \* blob store: set of <<split id, file number>>
    pc,           \* position of index_data
    result,       \* what index_data returned: "none", "ok" or an error
    run,          \* number of calls of index_data started
    lastPc,       \* where the process was when it was killed, else "none"
    hist,         \* [overwrite, result] of every call that returned
    splits,       \* reset_index: the listing of Published splits
    pubAtStart,   \* the splits Published when reset_index started
    marksDone,    \* reset_index: mark tasks that completed
    deletesDone,  \* reset_index: delete tasks that completed
    gcres,        \* reset_index: garbage_collection_result
    resetres,     \* what reset_index returned
    metaCalls,    \* <<operation, index argument>> of the reset's metastore calls
    sourceCreated,\* DocumentSource::create returned Ok in this call
    nextDoc,      \* documents read from the source so far
    workers,      \* builder workers: [pc, docs]
    chan,         \* the mpsc channel: sequence of sealed splits
    fin,          \* finalizer: [pc, split, nup]
    bres,         \* result of index_documents: "running", "ok" or an error
    fres,         \* result of finalize_split
    received,     \* split ids the finalizer received in this call
    pending,      \* split ids received and not yet committed, oldest first
    committing    \* split ids whose commit has started and not finished

cfgVars == <<params>>
storeVars == <<meta, storage>>
ctlVars == <<pc, result, run, hist, overwrite, lastPc>>
resetVars == <<splits, pubAtStart, marksDone, deletesDone, gcres, resetres, metaCalls>>
pipeVars == <<received, sourceCreated, nextDoc, workers, chan, fin, bres, fres, pending, committing>>
vars == <<params, overwrite, meta, storage, pc, result, run, lastPc, hist, splits,
          pubAtStart, marksDone, deletesDone, gcres, resetres, metaCalls,
          received, sourceCreated, nextDoc, workers, chan, fin, bres, fres, pending,
          committing>>

\* ----------------------------------------------------------------- helpers
Min(S) == CHOOSE x \in S : \A y \in S : x <= y

FilesOf(s) == {<<s, f>> : f \in 1..FilesPerSplit}

InState(m, st) == {s \in DOMAIN m : m[s].state = st}

OldDocs(k) == {0 - k}

\* documents a searcher sees: those of the Published splits
VisibleDocs(m) == UNION {m[s].docs : s \in InState(m, "Published")}

\* ---------------------------------------------------------------- metastore
IndexExists(key) == key = index_id

list_splits(m, key, st) == IF IndexExists(key) THEN InState(m, st) ELSE {}

mark_split_as_deleted(m, s) == [m EXCEPT ![s].state = "MarkedForDeleted"]

delete_split(m, s) == [x \in DOMAIN m \ {s} |-> m[x]]

publish_split(m, sp) == (sp.id :> [state |-> "Published", docs |-> sp.docs]) @@ m

\* ---------------------------------------------------------- garbage collector
GcTargets(m, st) == {x \in st : x[1] \in InState(m, "MarkedForDeleted")}

GcRank(T, x) ==
    Cardinality({y \in T : y[1] < x[1] \/ (y[1] = x[1] /\ y[2] < x[2])})

\* the files a collection removes when it stops after k of them
GcRemoved(m, st, k) == {x \in GcTargets(m, st) : GcRank(GcTargets(m, st), x) < k}

garbage_collect(m, st) == st \ GcTargets(m, st)

\* -------------------------------------------------------------------- Init
OldMeta(n) == [s \in 1..n |-> [state |-> "Published", docs |-> OldDocs(s)]]

\* the pipeline under every worker count, split size and short input
PipelineParams ==
    [index_uri : {index_id}, num_threads : 1..MaxThreads, heap_docs : {1, 2},
     num_docs : 0..SmallDocs, runs : {1}, old : {0, 1}]

\* successive runs over an index that holds splits, one worker
ResetParams ==
    [index_uri : IndexUris, num_threads : {1}, heap_docs : {1, 2},
     num_docs : {0, 2}, runs : {MaxRuns}, old : 0..MaxOld]

\* an input long enough to fill the channel
LongParams ==
    [index_uri : {index_id}, num_threads : {1}, heap_docs : {1},
     num_docs : {SPLIT_CHANNEL_SIZE + ExtraDocs}, runs : {1}, old : {0}]

Init ==
    /\ params \in PipelineParams \cup ResetParams \cup LongParams
    /\ overwrite = FALSE
    /\ meta = OldMeta(params.old)
    /\ storage = UNION {FilesOf(s) : s \in 1..params.old}
    /\ pc = "idle"
    /\ result = "none"
    /\ run = 0
    /\ lastPc = "none"
    /\ hist = <<>>
    /\ splits = {}
    /\ pubAtStart = {}
    /\ marksDone = {}
    /\ deletesDone = {}
    /\ gcres = "none"
    /\ resetres = "none"
    /\ metaCalls = {}
    /\ sourceCreated = FALSE
    /\ nextDoc = 0
    /\ workers = [w \in 1..params.num_threads |-> [pc |-> "idle", docs |-> {}]]
    /\ chan = <<>>
    /\ fin = [pc |-> "idle", split |-> NoSplit, nup |-> 0]
    /\ bres = "none"
    /\ fres = "none"
    /\ received = {}
    /\ pending = <<>>
    /\ committing = {}

\* ------------------------------------------------------------- index_data
\* index_data returns r
Finish(r) ==
    /\ pc' = "returned"
    /\ result' = r
    /\ hist' = Append(hist, [overwrite |-> overwrite, result |-> r])

\* mutant: the index is reset whatever the overwrite flag
ShouldReset_Always(ow) == TRUE

\* mutant: the overwrite flag is not looked at
ShouldReset_Never(ow) == FALSE

\* the check of params.overwrite
ShouldReset(ow) == ow

\* mutant: the result of reset_index is dropped instead of propagated
PcAfterReset_Ignore(r) == "source"

\* where index_data goes once reset_index has returned r: `.await?`
PcAfterReset(r) == IF r = "ok" THEN "source" ELSE "returned"

\* reset_index returns r to index_data
ResetReturns(r) ==
    /\ resetres' = r
    /\ pc' = PcAfterReset(r)
    /\ IF pc' = "returned"
         THEN /\ result' = r
              /\ hist' = Append(hist, [overwrite |-> overwrite, result |-> r])
         ELSE UNCHANGED <<result, hist>>

StartRun(ow) ==
    /\ pc = "idle" \/ (pc = "returned" /\ result = "ok")
    /\ run < params.runs
    /\ run' = run + 1
    /\ overwrite' = ow
    /\ pc' = "resolve"
    /\ result' = "none"
    /\ splits' = {}
    /\ pubAtStart' = {}
    /\ marksDone' = {}
    /\ deletesDone' = {}
    /\ gcres' = "none"
    /\ resetres' = "none"
    /\ metaCalls' = {}
    /\ sourceCreated' = FALSE
    /\ nextDoc' = 0
    /\ workers' = [w \in 1..params.num_threads |-> [pc |-> "idle", docs |-> {}]]
    /\ chan' = <<>>
    /\ fin' = [pc |-> "idle", split |-> NoSplit, nup |-> 0]
    /\ bres' = "none"
    /\ fres' = "none"
    /\ received' = {}
    /\ pending' = <<>>
    /\ committing' = {}
    /\ UNCHANGED <<params, meta, storage, hist, lastPc>>

\* MetastoreUriResolver::resolve
ResolveMetastore ==
    /\ pc = "resolve"
    /\ pc' = IF ShouldReset(overwrite) THEN "list" ELSE "source"
    /\ UNCHANGED <<params, overwrite, result, run, hist, lastPc>>
    /\ UNCHANGED <<storeVars, resetVars, pipeVars>>

ResolveMetastoreFails ==
    /\ pc = "resolve"
    /\ Finish("MetastoreError")
    /\ UNCHANGED <<params, overwrite, run, lastPc>>
    /\ UNCHANGED <<storeVars, resetVars, pipeVars>>

\* ------------------------------------------------------------- reset_index
\* mutant: the reset lists the Staged splits and leaves the Published ones
ListedState_Staged == "Staged"

\* the state reset_index lists
ListedState == "Published"

\* the index the delete tasks address
DeleteKey(uri, id) == uri

\* mutant: the reset goes on as soon as one mark task has completed
AfterMarks_Any(listed, done) ==
    IF done # {} \/ listed = {} THEN "storage" ELSE "mark"

\* position after the mark tasks `done` have completed (try_join_all)
AfterMarks(listed, done) == IF done = listed THEN "storage" ELSE "mark"

\* mutant: a garbage collection error is propagated
GcOutcome_Fatal(r) == r

\* what reset_index continues with when garbage collection returned r: an
\* error is logged as a warning and dropped
GcOutcome(r) == "ok"

\* mutant: the join of the delete tasks completes with the first of them
DeletesJoined_First(listed, done) == done # {}

\* whether all delete tasks have completed (try_join_all)
DeletesJoined(listed, done) == done = listed

\* mutant: the delete phase works on a fresh listing instead of the snapshot
DeleteTargets_Relist(listed, m) == listed \cup InState(m, ListedState)

\* the splits whose records the last phase deletes: `splits`, the vector the
\* initial list_splits returned, is iterated again
DeleteTargets(listed, m) == listed

ResetList ==
    /\ pc = "list"
    /\ splits' = list_splits(meta, index_id, ListedState)
    /\ pubAtStart' = InState(meta, "Published")
    /\ metaCalls' = metaCalls \cup {<<"list_splits", index_id>>}
    /\ pc' = AfterMarks(splits', {})
    /\ UNCHANGED <<params, overwrite, result, run, hist, lastPc>>
    /\ UNCHANGED <<marksDone, deletesDone, gcres, resetres>>
    /\ UNCHANGED <<storeVars, pipeVars>>

ResetListFails ==
    /\ pc = "list"
    /\ pubAtStart' = InState(meta, "Published")
    /\ metaCalls' = metaCalls \cup {<<"list_splits", index_id>>}
    /\ ResetReturns("ListError")
    /\ UNCHANGED <<params, overwrite, run, lastPc>>
    /\ UNCHANGED <<splits, marksDone, deletesDone, gcres>>
    /\ UNCHANGED <<storeVars, pipeVars>>

\* one of the concurrent mark tasks completes
ResetMark(s) ==
    /\ pc = "mark"
    /\ s \in splits \ marksDone
    /\ meta' = mark_split_as_deleted(meta, s)
    /\ marksDone' = marksDone \cup {s}
    /\ metaCalls' = metaCalls \cup {<<"mark_split_as_deleted", index_id>>}
    /\ pc' = AfterMarks(splits, marksDone')
    /\ UNCHANGED <<params, overwrite, result, run, hist, lastPc, storage>>
    /\ UNCHANGED <<splits, pubAtStart, deletesDone, gcres, resetres>>
    /\ UNCHANGED pipeVars

\* one of the mark tasks fails: try_join_all returns the error
ResetMarkFails(s) ==
    /\ pc = "mark"
    /\ s \in splits \ marksDone
    /\ metaCalls' = metaCalls \cup {<<"mark_split_as_deleted", index_id>>}
    /\ ResetReturns("MarkError")
    /\ UNCHANGED <<params, overwrite, run, lastPc>>
    /\ UNCHANGED <<splits, pubAtStart, marksDone, deletesDone, gcres>>
    /\ UNCHANGED <<storeVars, pipeVars>>

\* storage_resolver.resolve(&index_uri)?
ResetResolveStorage ==
    /\ pc = "storage"
    /\ pc' = "gc"
    /\ UNCHANGED <<params, overwrite, result, run, hist, lastPc>>
    /\ UNCHANGED <<storeVars, resetVars, pipeVars>>

ResetResolveStorageFails ==
    /\ pc = "storage"
    /\ ResetReturns("StorageError")
    /\ UNCHANGED <<params, overwrite, run, lastPc>>
    /\ UNCHANGED <<splits, pubAtStart, marksDone, deletesDone, gcres, metaCalls>>
    /\ UNCHANGED <<storeVars, pipeVars>>

\* position once the delete tasks `done` have completed
DeleteStep(done) ==
    IF DeletesJoined(splits, done)
      THEN ResetReturns("ok")
      ELSE UNCHANGED <<pc, result, hist, resetres>>

\* reset_index after garbage_collect returned r
GcReturns(r) ==
    /\ gcres' = r
    /\ IF GcOutcome(r) = "ok"
         THEN /\ pc' = "delete"
              /\ UNCHANGED <<result, hist, resetres>>
         ELSE ResetReturns("GarbageCollectionError")

ResetGc ==
    /\ pc = "gc"
    /\ storage' = garbage_collect(meta, storage)
    /\ GcReturns("ok")
    /\ UNCHANGED <<params, overwrite, run, meta, lastPc>>
    /\ UNCHANGED <<splits, pubAtStart, marksDone, deletesDone, metaCalls>>
    /\ UNCHANGED pipeVars

\* garbage collection fails after removing k files: only a warning
ResetGcFails(k) ==
    /\ pc = "gc"
    /\ k < Cardinality(GcTargets(meta, storage)) \/ k = 0
    /\ storage' = storage \ GcRemoved(meta, storage, k)
    /\ GcReturns("err")
    /\ UNCHANGED <<params, overwrite, run, meta, lastPc>>
    /\ UNCHANGED <<splits, pubAtStart, marksDone, deletesDone, metaCalls>>
    /\ UNCHANGED pipeVars

\* the delete tasks are created and joined; with no listed split the join
\* completes at once
ResetDeleteNone ==
    /\ pc = "delete"
    /\ splits = {}
    /\ ResetReturns("ok")
    /\ UNCHANGED <<params, overwrite, run, lastPc>>
    /\ UNCHANGED <<splits, pubAtStart, marksDone, deletesDone, gcres, metaCalls>>
    /\ UNCHANGED <<storeVars, pipeVars>>

\* one of the concurrent delete tasks completes
ResetDelete(s) ==
    /\ pc = "delete"
    /\ s \in DeleteTargets(splits, meta) \ deletesDone
    /\ IndexExists(DeleteKey(params.index_uri, index_id))
    /\ s \in DOMAIN meta
    /\ meta' = delete_split(meta, s)
    /\ deletesDone' = deletesDone \cup {s}
    /\ metaCalls' = metaCalls \cup {<<"delete_split", DeleteKey(params.index_uri, index_id)>>}
    /\ DeleteStep(deletesDone')
    /\ UNCHANGED <<params, overwrite, run, lastPc, storage>>
    /\ UNCHANGED <<splits, pubAtStart, marksDone, gcres>>
    /\ UNCHANGED pipeVars

\* one of the delete tasks fails: the metastore call fails, or it names an
\* index or a split the metastore does not hold
ResetDeleteFails(s) ==
    /\ pc = "delete"
    /\ s \in DeleteTargets(splits, meta) \ deletesDone
    /\ metaCalls' = metaCalls \cup {<<"delete_split", DeleteKey(params.index_uri, index_id)>>}
    /\ ResetReturns("DeleteError")
    /\ UNCHANGED <<params, overwrite, run, lastPc>>
    /\ UNCHANGED <<splits, pubAtStart, marksDone, deletesDone, gcres>>
    /\ UNCHANGED <<storeVars, pipeVars>>

\* ------------------------------------------------------ the bounded channel
\* mutant: an unbounded channel
ChannelHasRoom_Unbounded(c) == TRUE

\* whether channel(SPLIT_CHANNEL_SIZE) accepts one more split
ChannelHasRoom(c) == Len(c) < SPLIT_CHANNEL_SIZE

\* ---------------------------------------------------- try_join! of the pair
\* mutant: the result of index_documents is not looked at
JoinResult_IgnoreBuilder(b, f) ==
    IF f \notin {"running", "ok"} THEN f
    ELSE IF f = "ok" THEN "ok"
    ELSE "pending"

\* mutant: an error of finalize_split is taken for its completion
JoinResult_IgnoreFinalizer(b, f) ==
    IF b \notin {"running", "ok"} THEN b
    ELSE IF b = "ok" /\ f # "running" THEN "ok"
    ELSE "pending"

\* mutant: index_data returns as soon as index_documents has returned Ok
JoinResult_BuilderOnly(b, f) ==
    IF b \notin {"running", "ok"} THEN b
    ELSE IF b = "ok" THEN "ok"
    ELSE "pending"

\* what try_join! yields for the results b of index_documents and f of
\* finalize_split: the first error, Ok when both are Ok, else still pending
JoinResult(b, f) ==
    IF b \notin {"running", "ok"} THEN b
    ELSE IF f \notin {"running", "ok"} THEN f
    ELSE IF b = "ok" /\ f = "ok" THEN "ok"
    ELSE "pending"

Joined(b, f) ==
    IF JoinResult(b, f) = "pending"
      THEN UNCHANGED <<pc, result, hist>>
      ELSE Finish(JoinResult(b, f))

\* mutant: the pair runs on as detached tasks after index_data returned
PairPolled_Detached(p) == p \in {"join", "returned"}

\* whether the futures of the pair are still polled by try_join!
PairPolled(p) == p = "join"

\* mutant: the error of DocumentSource::create is dropped
PcAfterSource_Ignore(r) == "join"

\* where index_data goes once DocumentSource::create has returned r: `.await?`
PcAfterSource(r) == IF r = "ok" THEN "join" ELSE "returned"

\* the channel is created and the pair is started
StartPair ==
    /\ nextDoc' = 0
    /\ workers' = [w \in 1..params.num_threads |-> [pc |-> "fill", docs |-> {}]]
    /\ chan' = <<>>
    /\ fin' = [pc |-> "recv", split |-> NoSplit, nup |-> 0]
    /\ bres' = "running"
    /\ fres' = "running"

\* DocumentSource::create(&params.input_uri).await? and the channel
CreateSource ==
    /\ pc = "source"
    /\ pc' = PcAfterSource("ok")
    /\ sourceCreated' = TRUE
    /\ StartPair
    /\ UNCHANGED <<params, overwrite, result, run, hist, lastPc>>
    /\ UNCHANGED <<received, pending, committing>>
    /\ UNCHANGED <<storeVars, resetVars>>

\* the input location cannot be opened
CreateSourceFails ==
    /\ pc = "source"
    /\ IF PcAfterSource("SourceUnavailable") = "returned"
         THEN /\ Finish("SourceUnavailable")
              /\ UNCHANGED <<nextDoc, workers, chan, fin, bres, fres>>
         ELSE /\ pc' = PcAfterSource("SourceUnavailable")
              /\ StartPair
              /\ UNCHANGED <<result, hist>>
    /\ UNCHANGED <<params, overwrite, run, lastPc>>
    /\ UNCHANGED <<sourceCreated, received, pending, committing>>
    /\ UNCHANGED <<storeVars, resetVars>>

\* ---------------------------------------------------------- index_documents
SplitOf(docs) == [id |-> IdStride * run + Min(docs), docs |-> docs]

\* whether a split holding n documents has used up its memory budget
SplitFull(n) == n >= params.heap_docs

ReceiverOpen == fres = "running" /\ PairPolled(pc)

\* the workers run while the pair is polled and, once the finalizer has
\* failed, until they find the channel closed
BuilderLive ==
    /\ bres = "running"
    /\ PairPolled(pc) \/ (pc = "returned" /\ fres \notin {"running", "ok"})

\* index_documents returns b
BuilderEnds(b) ==
    /\ bres' = b
    /\ IF PairPolled(pc) THEN Joined(b, fres) ELSE UNCHANGED <<pc, result, hist>>

AllDone(ws) == \A w \in DOMAIN ws : ws[w].pc = "done"

WorkerAdd(w) ==
    /\ BuilderLive
    /\ workers[w].pc = "fill"
    /\ nextDoc < params.num_docs
    /\ nextDoc' = nextDoc + 1
    /\ LET d == workers[w].docs \cup {nextDoc + 1}
       IN workers' = [workers EXCEPT ![w] =
              [pc |-> IF SplitFull(Cardinality(d)) THEN "send" ELSE "fill",
               docs |-> d]]
    /\ UNCHANGED <<params, overwrite, result, run, hist, lastPc, pc>>
    /\ UNCHANGED <<received, sourceCreated, chan, fin, bres, fres, pending, committing>>
    /\ UNCHANGED <<storeVars, resetVars>>

\* a document cannot be read or parsed: the builder fails
WorkerDocFails(w) ==
    /\ BuilderLive
    /\ workers[w].pc = "fill"
    /\ nextDoc < params.num_docs
    /\ workers' = [workers EXCEPT ![w].pc = "stopped"]
    /\ BuilderEnds("DocumentError")
    /\ UNCHANGED <<params, overwrite, run, lastPc>>
    /\ UNCHANGED <<received, sourceCreated, nextDoc, chan, fin, fres, pending, committing>>
    /\ UNCHANGED <<storeVars, resetVars>>

\* the input is exhausted: seal what is left, or finish
WorkerEnd(w) ==
    /\ BuilderLive
    /\ workers[w].pc = "fill"
    /\ nextDoc = params.num_docs
    /\ workers' = [workers EXCEPT ![w].pc =
                      IF workers[w].docs = {} THEN "done" ELSE "send"]
    /\ IF AllDone(workers')
         THEN BuilderEnds("ok")
         ELSE UNCHANGED <<bres, pc, result, hist>>
    /\ UNCHANGED <<params, overwrite, run, lastPc>>
    /\ UNCHANGED <<received, sourceCreated, nextDoc, chan, fin, fres, pending, committing>>
    /\ UNCHANGED <<storeVars, resetVars>>

\* split_sender.send(split): waits while the channel is full
WorkerSend(w) ==
    /\ BuilderLive
    /\ workers[w].pc = "send"
    /\ ReceiverOpen
    /\ ChannelHasRoom(chan)
    /\ chan' = Append(chan, SplitOf(workers[w].docs))
    /\ workers' = [workers EXCEPT ![w] = [pc |-> "fill", docs |-> {}]]
    /\ UNCHANGED <<params, overwrite, result, run, hist, lastPc, pc>>
    /\ UNCHANGED <<received, sourceCreated, nextDoc, fin, bres, fres, pending, committing>>
    /\ UNCHANGED <<storeVars, resetVars>>

\* the receiver is gone: the send fails and the builder winds down
WorkerSendClosed(w) ==
    /\ BuilderLive
    /\ workers[w].pc = "send"
    /\ ~ReceiverOpen
    /\ workers' = [workers EXCEPT ![w].pc = "stopped"]
    /\ BuilderEnds("SendError")
    /\ UNCHANGED <<params, overwrite, run, lastPc>>
    /\ UNCHANGED <<received, sourceCreated, nextDoc, chan, fin, fres, pending, committing>>
    /\ UNCHANGED <<storeVars, resetVars>>

\* ------------------------------------------------------------ finalize_split
FinalizerLive == fres = "running" /\ PairPolled(pc)

\* mutant: the finalizer receives the next split before publishing this one
CanReceive_Early(f) == f.pc \in {"recv", "publish"}

\* whether the finalizer is at its receive
CanReceive(f) == f.pc = "recv"

\* mutant: the upload is taken as complete after the first file
UploadComplete_AnyFile(n) == n >= 1

\* whether all files of the split are uploaded after n of them
UploadComplete(n) == n >= FilesPerSplit

\* finalize_split returns f
FinalizerEnds(f) ==
    /\ fres' = f
    /\ Joined(bres, f)

FinRecv ==
    /\ FinalizerLive
    /\ CanReceive(fin)
    /\ chan # <<>>
    /\ fin' = [pc |-> "upload", split |-> Head(chan), nup |-> 0]
    /\ chan' = Tail(chan)
    /\ pending' = Append(pending, Head(chan).id)
    /\ received' = received \cup {Head(chan).id}
    /\ UNCHANGED <<params, overwrite, result, run, hist, lastPc, pc>>
    /\ UNCHANGED <<sourceCreated, nextDoc, workers, bres, fres, committing>>
    /\ UNCHANGED <<storeVars, resetVars>>

\* mutant: the sender is never dropped, so the channel never closes
SenderDropped_Kept(b) == FALSE

\* whether every sender of the channel is dropped: split_sender is moved into
\* index_documents and dropped when that future completes
SenderDropped(b) == b = "ok"

\* the channel is closed and empty: normal termination
FinEndOfStream ==
    /\ FinalizerLive
    /\ CanReceive(fin)
    /\ chan = <<>>
    /\ SenderDropped(bres)
    /\ fin' = [fin EXCEPT !.pc = "done"]
    /\ FinalizerEnds("ok")
    /\ UNCHANGED <<params, overwrite, run, lastPc>>
    /\ UNCHANGED <<received, sourceCreated, nextDoc, workers, chan, bres, pending, committing>>
    /\ UNCHANGED <<storeVars, resetVars>>

FinUploadFile ==
    /\ FinalizerLive
    /\ fin.pc = "upload"
    /\ storage' = storage \cup {<<fin.split.id, fin.nup + 1>>}
    /\ fin' = [fin EXCEPT !.nup = fin.nup + 1,
                          !.pc = IF UploadComplete(fin.nup + 1)
                                   THEN "publish" ELSE "upload"]
    /\ committing' = committing \cup {fin.split.id}
    /\ UNCHANGED <<params, overwrite, result, run, hist, lastPc, pc, meta>>
    /\ UNCHANGED <<received, sourceCreated, nextDoc, workers, chan, bres, fres, pending>>
    /\ UNCHANGED resetVars

FinUploadFails ==
    /\ FinalizerLive
    /\ fin.pc = "upload"
    /\ committing' = committing \cup {fin.split.id}
    /\ FinalizerEnds("UploadError")
    /\ UNCHANGED <<params, overwrite, run, lastPc>>
    /\ UNCHANGED <<received, sourceCreated, nextDoc, workers, chan, fin, bres, pending>>
    /\ UNCHANGED <<storeVars, resetVars>>

FinPublish ==
    /\ FinalizerLive
    /\ fin.pc = "publish"
    /\ meta' = publish_split(meta, fin.split)
    /\ fin' = [pc |-> "recv", split |-> NoSplit, nup |-> 0]
    /\ pending' = SelectSeq(pending, LAMBDA x : x # fin.split.id)
    /\ committing' = committing \ {fin.split.id}
    /\ UNCHANGED <<params, overwrite, result, run, hist, lastPc, pc, storage>>
    /\ UNCHANGED <<received, sourceCreated, nextDoc, workers, chan, bres, fres>>
    /\ UNCHANGED resetVars

FinPublishFails ==
    /\ FinalizerLive
    /\ fin.pc = "publish"
    /\ FinalizerEnds("PublishError")
    /\ UNCHANGED <<params, overwrite, run, lastPc>>
    /\ UNCHANGED <<received, sourceCreated, nextDoc, workers, chan, fin, bres, pending, committing>>
    /\ UNCHANGED <<storeVars, resetVars>>

\* ------------------------------------------------------------- environment
Running == pc \notin {"idle", "returned", "crashed"}

\* the process is killed
Crash ==
    /\ Running
    /\ pc' = "crashed"
    /\ result' = "Crashed"
    /\ lastPc' = pc
    /\ UNCHANGED <<params, overwrite, run, hist>>
    /\ UNCHANGED <<storeVars, resetVars, pipeVars>>

\* the split another process publishes: an id no call of index_data gives to
\* a split
ExtId == 0 - 1

ExtDocs == {0 - IdStride}

\* another process publishes a split of the index while the reset of the
\* first call is between its listing and its return
ExternalPublish ==
    /\ pc \in {"mark", "storage", "gc", "delete"}
    /\ run = 1
    /\ ExtId \notin DOMAIN meta
    /\ FilesOf(ExtId) \cap storage = {}
    /\ meta' = publish_split(meta, [id |-> ExtId, docs |-> ExtDocs])
    /\ storage' = storage \cup FilesOf(ExtId)
    /\ UNCHANGED <<ctlVars, params, resetVars, pipeVars>>

\* a garbage collection run outside index_data
GcAgain ==
    /\ ~Running
    /\ GcTargets(meta, storage) # {}
    /\ storage' = garbage_collect(meta, storage)
    /\ UNCHANGED <<ctlVars, params, meta, resetVars, pipeVars>>

GcAgainFails(k) ==
    /\ ~Running
    /\ k > 0
    /\ k < Cardinality(GcTargets(meta, storage))
    /\ storage' = storage \ GcRemoved(meta, storage, k)
    /\ UNCHANGED <<ctlVars, params, meta, resetVars, pipeVars>>

\* -------------------------------------------------------------------- Next
MaxFiles == (MaxOld + MaxRuns) * FilesPerSplit

Next ==
    \/ \E ow \in BOOLEAN : StartRun(ow)
    \/ ResolveMetastore
    \/ ResolveMetastoreFails
    \/ ResetList
    \/ ResetListFails
    \/ \E s \in splits : ResetMark(s)
    \/ \E s \in splits : ResetMarkFails(s)
    \/ ResetResolveStorage
    \/ ResetResolveStorageFails
    \/ ResetGc
    \/ \E k \in 0..MaxFiles : ResetGcFails(k)
    \/ ResetDeleteNone
    \/ \E s \in DOMAIN meta \cup splits : ResetDelete(s)
    \/ \E s \in DOMAIN meta \cup splits : ResetDeleteFails(s)
    \/ CreateSource
    \/ CreateSourceFails
    \/ \E w \in DOMAIN workers : WorkerAdd(w)
    \/ \E w \in DOMAIN workers : WorkerDocFails(w)
    \/ \E w \in DOMAIN workers : WorkerEnd(w)
    \/ \E w \in DOMAIN workers : WorkerSend(w)
    \/ \E w \in DOMAIN workers : WorkerSendClosed(w)
    \/ FinRecv
    \/ FinEndOfStream
    \/ FinUploadFile
    \/ FinUploadFails
    \/ FinPublish
    \/ FinPublishFails
    \/ Crash
    \/ ExternalPublish
    \/ GcAgain
    \/ \E k \in 1..MaxFiles : GcAgainFails(k)

Spec == Init /\ [][Next]_vars

\* ------------------------------------------- every store call succeeds
\* delete_split is called with a key the metastore holds no index for: the
\* call returns an error although the metastore is healthy
ResetDeleteWrongIndex(s) ==
    /\ ~IndexExists(DeleteKey(params.index_uri, index_id))
    /\ ResetDeleteFails(s)

\* the steps of index_data itself
MainStep ==
    \/ ResolveMetastore
    \/ ResetList
    \/ \E s \in splits : ResetMark(s)
    \/ ResetResolveStorage
    \/ ResetGc
    \/ ResetDeleteNone
    \/ \E s \in DOMAIN meta \cup splits : ResetDelete(s)
    \/ \E s \in DOMAIN meta \cup splits : ResetDeleteWrongIndex(s)
    \/ CreateSource

\* the steps of indexing thread w
WorkerStep(w) ==
    /\ w \in DOMAIN workers
    /\ \/ WorkerAdd(w)
       \/ WorkerEnd(w)
       \/ WorkerSend(w)

\* the steps of the finalizer
FinStep ==
    \/ FinRecv
    \/ FinEndOfStream
    \/ FinUploadFile
    \/ FinPublish

NextLive ==
    \/ \E ow \in BOOLEAN : StartRun(ow)
    \/ MainStep
    \/ \E w \in 1..MaxThreads : WorkerStep(w)
    \/ FinStep

\* the runtime polls every future that can make progress: index_data, each
\* indexing thread and the finalizer; nobody is bound to call index_data again
LiveSpec ==
    /\ Init
    /\ [][NextLive]_vars
    /\ WF_vars(MainStep)
    /\ \A w \in 1..MaxThreads : WF_vars(WorkerStep(w))
    /\ WF_vars(FinStep)

\* ================================================================= claims
IsErr(r) == r \notin {"none", "running", "ok"}

Published(m) == InState(m, "Published")

\* the ids of the splits sealed by call r
RunIds(r) == {s \in (DOMAIN meta) \cup {x[1] : x \in storage} :
                 s >= IdStride * r /\ s < IdStride * (r + 1)}

\* C1: in every reachable state, every file of every split whose metadata
\* record is Published is present in the blob store.
C1_PublishedHasFiles ==
    \A s \in Published(meta) : FilesOf(s) \subseteq storage

\* a split committed by the finalizer is Published after a reset of this
\* call has collected the files of the splits it marked
C1_Witness ==
    /\ gcres = "ok"
    /\ pubAtStart # {}
    /\ \E s \in Published(meta) : s >= IdStride

\* C2: the finalizer commits the splits in the order it received them and
\* one at a time: at most one commit is in progress, and it is the commit of
\* the oldest split received and not yet committed.
C2_CommitInOrder ==
    /\ Cardinality(committing) <= 1
    /\ committing # {} => pending # <<>> /\ committing = {Head(pending)}

\* with two workers, a commit is in progress while a later split waits in
\* the channel
C2_Witness ==
    /\ params.num_threads = 2
    /\ committing # {}
    /\ Len(chan) >= 1

\* C3: the channel never holds more than SPLIT_CHANNEL_SIZE splits, and a
\* worker that is at its send while the channel is full has not sent in the
\* next state.
C3_ChannelBounded ==
    /\ [](Len(chan) <= SPLIT_CHANNEL_SIZE)
    /\ [][\A w \in DOMAIN workers :
            (workers[w].pc = "send" /\ Len(chan) = SPLIT_CHANNEL_SIZE)
              => workers'[w].pc \in {"send", "stopped", "idle"}]_vars

\* the channel is full and a worker waits to send
C3_Witness ==
    /\ Len(chan) = SPLIT_CHANNEL_SIZE
    /\ \E w \in DOMAIN workers : workers[w].pc = "send"

\* nothing of the pipeline of the current call has happened
NoPipelineYet ==
    /\ ~sourceCreated
    /\ nextDoc = 0
    /\ bres = "none"
    /\ fres = "none"
    /\ chan = <<>>
    /\ \A w \in DOMAIN workers : workers[w].docs = {}
    /\ RunIds(run) = {}

\* C4: with overwrite set, the document source is created, documents are
\* read and splits are built only after reset_index has returned Ok; when
\* reset_index returned an error, index_data has returned that error and
\* nothing of the pipeline has happened.
C4_ResetBeforeSource ==
    /\ (overwrite /\ ~NoPipelineYet) => resetres = "ok"
    /\ (overwrite /\ pc \in {"source", "join"}) => resetres = "ok"
    /\ IsErr(resetres) => pc = "returned" /\ result = resetres /\ NoPipelineYet

\* an overwrite call whose reset cleared splits and whose builder has read
\* documents
C4_Witness ==
    /\ overwrite
    /\ resetres = "ok"
    /\ pubAtStart # {}
    /\ nextDoc > 0

\* C5 (the claim as stated): when a mark fails, the reset has run no garbage
\* collection and no delete, and every split that was Published when the
\* reset started is still Published with its files.
C5_MarkFailureFailsClosed ==
    resetres = "MarkError" =>
        /\ gcres = "none"
        /\ deletesDone = {}
        /\ \A s \in pubAtStart :
              s \in Published(meta) /\ FilesOf(s) \subseteq storage

\* C6: reset_index returns Ok only after every mark has completed, garbage
\* collection has returned (Ok or an error) and every delete has completed,
\* the records of all listed splits then being gone; a garbage collection
\* error never becomes the result of the reset, which goes on to the
\* deletes, while any other error is what the reset returns.
C6_GcFailureNotFatal ==
    /\ resetres = "ok" =>
          /\ marksDone = splits
          /\ gcres \in {"ok", "err"}
          /\ deletesDone = splits
          /\ \A s \in splits : s \notin DOMAIN meta
    /\ resetres # "GarbageCollectionError"
    /\ gcres = "err" => (pc = "delete" \/ resetres \in {"ok", "DeleteError"}
                          \/ (pc = "crashed" /\ lastPc = "delete"))
    /\ IsErr(resetres) => result = resetres

\* a reset returned Ok although its garbage collection failed, and the
\* records of the splits it listed are deleted
C6_Witness ==
    /\ resetres = "ok"
    /\ gcres = "err"
    /\ splits # {}
    /\ splits \cap DOMAIN meta = {}

\* files in the blob store that belong to no Published split
Orphans(m, st) == {x \in st : x[1] \notin Published(m)}

\* the reset completed its mark phase and then failed or was killed
FailedAfterMarks ==
    \/ resetres \in {"StorageError", "DeleteError"}
    \/ pc = "crashed" /\ lastPc \in {"storage", "gc", "delete"}

\* C7: after a reset that completed its mark phase and then failed or was
\* killed, no split that was Published when the reset started is Published;
\* and a step taken while no call is running (a later garbage collection)
\* publishes no split and adds no orphaned file.
C7_ResetSafety ==
    /\ [](FailedAfterMarks => pubAtStart \cap Published(meta) = {})
    /\ [][(~Running /\ ~Running') =>
            /\ Published(meta') \subseteq Published(meta)
            /\ Orphans(meta', storage') \subseteq Orphans(meta, storage)]_vars

\* a reset failed at its deletes after a failed garbage collection, and a
\* later garbage collection has removed the files it had left
C7_Witness ==
    /\ resetres = "DeleteError"
    /\ gcres = "err"
    /\ pubAtStart # {}
    /\ \A s \in pubAtStart : FilesOf(s) \cap storage = {}

\* the last two calls both had overwrite set and both returned Ok
TwoOverwriteRuns ==
    /\ pc = "returned"
    /\ result = "ok"
    /\ overwrite
    /\ run >= 2
    /\ Len(hist) = run
    /\ hist[run - 1].overwrite
    /\ hist[run - 1].result = "ok"

\* C8: after an overwrite call that returned Ok, be it the first or one that
\* follows another overwrite call on the same input, the Published splits
\* hold exactly the documents of the input, each in one split, and no split
\* of an earlier call is Published: two calls leave what one call leaves.
\* A split another process published during the call is not the call's and
\* is set aside.
C8_IdempotentOverwrite ==
    (pc = "returned" /\ result = "ok" /\ overwrite) =>
        /\ VisibleDocs(meta) \ ExtDocs = 1..params.num_docs
        /\ \A d \in 1..params.num_docs :
              Cardinality({s \in Published(meta) : d \in meta[s].docs}) = 1
        /\ Published(meta) \subseteq RunIds(run) \cup {ExtId}

\* two overwrite calls over a non-empty input on an index that held splits
C8_Witness ==
    /\ TwoOverwriteRuns
    /\ params.num_docs > 0
    /\ params.old > 0

\* C9: index_data returns Ok only when index_documents and finalize_split
\* both returned Ok; as soon as one of them has failed, index_data has
\* returned an error, the error of the side that failed first, and a side
\* that has failed is not run again.
C9_JoinFailsOnEitherSide ==
    /\ [](result = "ok" => (bres = "ok" /\ fres = "ok"))
    /\ []((IsErr(bres) \/ IsErr(fres)) => pc = "returned" /\ IsErr(result))
    /\ [](IsErr(fres) => result = fres)
    /\ []((IsErr(bres) /\ ~IsErr(fres)) => result = bres)
    /\ [][(IsErr(bres) => bres' = bres) /\ (IsErr(fres) => fres' = fres)]_vars

\* the builder failed while the finalizer was running, and index_data
\* returned the builder's error
C9_Witness ==
    /\ bres = "DocumentError"
    /\ fres = "running"
    /\ result = "DocumentError"

C11_UploadFailureStopsCommits ==
    /\ [](fres = "UploadError" =>
            /\ pc = "returned" /\ result = "UploadError"
            /\ fin.split.id \in received
            /\ received \ {fin.split.id} \subseteq Published(meta)
            /\ RunIds(run) \cap DOMAIN meta = received \ {fin.split.id}
            /\ \A i \in 1..Len(chan) : chan[i].id \notin DOMAIN meta)
    /\ [][fres = "UploadError" => Published(meta') \subseteq Published(meta)]_vars

\* the upload of the second split received failed after one of its files
\* was stored, while a third split waited in the channel
C11_Witness ==
    /\ fres = "UploadError"
    /\ Cardinality(received) = 2
    /\ fin.nup >= 1
    /\ chan # <<>>

\* C12: when the input location cannot be opened, index_data has returned
\* the source error and nothing of the pipeline has happened in that call;
\* the channel, the builder and the finalizer exist only once the document
\* source has been created.
C12_SourceFailureBuildsNothing ==
    /\ result = "SourceUnavailable" => pc = "returned" /\ NoPipelineYet
    /\ (run >= 1 /\ ~sourceCreated) => (NoPipelineYet /\ pc # "join")

\* an overwrite call cleared the index and then could not open its input
C12_Witness ==
    /\ result = "SourceUnavailable"
    /\ overwrite
    /\ pubAtStart # {}
    /\ Published(meta) = {}

\* the sum of the document counts of the splits S
RECURSIVE DocCount(_, _)
DocCount(S, m) ==
    IF S = {} THEN 0
    ELSE LET s == CHOOSE x \in S : TRUE
         IN Cardinality(m[s].docs) + DocCount(S \ {s}, m)

\* the splits of the current call that are Published
RunPublished == Published(meta) \cap RunIds(run)

\* C13: when index_data has returned Ok, no sealed split is left with a
\* worker, in the channel or with the finalizer, every split received is
\* Published, the document counts of the splits the call published sum to
\* the number of input documents, and every input document is in exactly
\* one of them.
C13_SuccessPublishesEverything ==
    (pc = "returned" /\ result = "ok") =>
        /\ chan = <<>>
        /\ \A w \in DOMAIN workers : workers[w].pc = "done" /\ workers[w].docs = {}
        /\ fin.split = NoSplit
        /\ pending = <<>> /\ committing = {}
        /\ received = RunPublished
        /\ nextDoc = params.num_docs
        /\ DocCount(RunPublished, meta) = params.num_docs
        /\ \A d \in 1..params.num_docs :
              Cardinality({s \in RunPublished : d \in meta[s].docs}) = 1
        /\ \A s \in RunPublished : FilesOf(s) \subseteq storage

\* a call with two workers returned Ok after publishing two splits
C13_Witness ==
    /\ pc = "returned"
    /\ result = "ok"
    /\ params.num_threads = 2
    /\ Cardinality(RunPublished) >= 2

\* C14: once reset_index has returned Ok, no split that was Published when
\* it started has a metadata record, each having been marked and then
\* deleted; and when garbage collection returned Ok none of their files is
\* in the blob store.
C14_ResetRemovesPublished ==
    resetres = "ok" =>
        /\ pubAtStart \cap DOMAIN meta = {}
        /\ pubAtStart \subseteq marksDone \cap deletesDone
        /\ gcres = "ok" => \A s \in pubAtStart : FilesOf(s) \cap storage = {}

\* a reset of an index with two Published splits returned Ok after a
\* successful garbage collection
C14_Witness ==
    /\ resetres = "ok"
    /\ gcres = "ok"
    /\ Cardinality(pubAtStart) >= 2

\* C15: in a call without overwrite the reset makes no metastore call and
\* runs no garbage collection, and no step of the call takes a Published
\* split out of the Published state or removes one of its files.
C15_AppendKeepsPublished ==
    /\ []((run >= 1 /\ ~overwrite) =>
            /\ metaCalls = {}
            /\ splits = {} /\ marksDone = {} /\ deletesDone = {}
            /\ gcres = "none" /\ resetres = "none")
    /\ [][(~overwrite' /\ pc' # "idle" /\ (Running \/ Running')) =>
            \A s \in Published(meta) :
                s \in Published(meta') /\ FilesOf(s) \cap storage \subseteq storage']_vars

\* a call without overwrite published a split beside the splits the index
\* held, and another such call failed at an upload
C15_Witness ==
    /\ ~overwrite
    /\ run >= 1
    /\ result = "UploadError"
    /\ \E s \in Published(meta) : s < IdStride
    /\ \E s \in Published(meta) : s >= IdStride

\* C16: with a finite input and store calls that all succeed, a call that
\* reached the pipeline returns success; at that point every indexing thread
\* is done, the channel is empty and every split the finalizer received is
\* Published. Holds for one or several threads and for inputs that seal more
\* splits than the channel holds.
C16_PipelineTerminates ==
    /\ (pc = "join") ~> (pc = "returned" /\ result = "ok")
    /\ []((pc = "returned" /\ result = "ok") =>
            /\ AllDone(workers)
            /\ chan = <<>>
            /\ fin.pc = "done"
            /\ received \subseteq Published(meta))

\* a call whose input sealed more splits than the channel holds returned
\* success with no store failure on the way
C16_Witness ==
    /\ pc = "returned"
    /\ result = "ok"
    /\ params.num_docs > params.heap_docs * SPLIT_CHANNEL_SIZE
    /\ Cardinality(received) > SPLIT_CHANNEL_SIZE
    /\ fres = "ok" /\ bres = "ok"

\* files no later step can reach: no metadata record names their split, so
\* no garbage collection finds them, and no commit in progress will publish it
LeftBehind(m, st, p, f) ==
    {x \in st : x[1] \notin DOMAIN m /\ ~(PairPolled(p) /\ x[1] = f.split.id)}

\* once left behind, a file stays in the blob store whatever happens next
LeftBehindStays ==
    [][LeftBehind(meta, storage, pc, fin) \subseteq
           LeftBehind(meta', storage', pc', fin')]_vars

\* C17: every file in the blob store is the file of a Published split, or of
\* a split whose metadata record a later garbage collection can work from, or
\* of the split being committed right now; none is left behind for ever.
C17_NoFileLeftBehind == LeftBehind(meta, storage, pc, fin) = {}

\* C18: the phases of reset_index are ordered and work on the one listing:
\* only listed splits are marked or deleted; the reset is past its mark phase
\* (storage resolved, garbage collection, deletes) only when every listed
\* split is marked; a file is removed by the call only in its garbage
\* collection; a record is removed only in the delete phase, after garbage
\* collection has returned; a successful reset deleted exactly the listed
\* splits; and the record of a split outside the listing is never touched.
C18_PhasesOnOneSnapshot ==
    /\ [](marksDone \subseteq splits /\ deletesDone \subseteq splits)
    /\ []((pc \in {"storage", "gc", "delete"} \/ gcres # "none" \/ deletesDone # {})
              => marksDone = splits)
    /\ []((pc = "delete" \/ deletesDone # {}) => gcres \in {"ok", "err"})
    /\ [](resetres = "ok" => deletesDone = splits)
    /\ [][(Running /\ ~(storage \subseteq storage'))
              => (pc = "gc" /\ marksDone = splits /\ deletesDone = {})]_vars
    /\ [][(Running /\ ~(DOMAIN meta \subseteq DOMAIN meta'))
              => (pc = "delete" /\ gcres \in {"ok", "err"} /\ marksDone = splits)]_vars
    /\ [][Running => \A s \in DOMAIN meta \ splits' :
                         s \in DOMAIN meta' /\ meta'[s] = meta[s]]_vars

\* a reset deleted the two splits it had listed, and the split another
\* process published after the listing is still Published
C18_Witness ==
    /\ resetres = "ok"
    /\ Cardinality(splits) = 2
    /\ deletesDone = splits
    /\ splits \cap DOMAIN meta = {}
    /\ ExtId \notin splits
    /\ ExtId \in Published(meta)

\* C19: every metastore call of reset_index addresses the index the splits
\* were listed on, index_id.
C19_OneIndexAddressed == \A c \in metaCalls : c[2] = index_id

\* C20: the reset is not rolled back. When a call with overwrite set fails
\* after its reset succeeded (the source cannot be opened, the builder or the
\* finalizer fails), no split that was Published when the call started is
\* Published or has a record: what is Published was sealed by this call or
\* published by another process, and with no source opened nothing of the
\* input is visible.
C20_ResetNotRolledBack ==
    (overwrite /\ resetres = "ok" /\ pc = "returned" /\ IsErr(result)) =>
        /\ pubAtStart \cap DOMAIN meta = {}
        /\ Published(meta) \subseteq RunIds(run) \cup {ExtId}
        /\ (~sourceCreated => VisibleDocs(meta) \subseteq ExtDocs)

\* an overwrite call removed the two Published splits of the index and then
\* failed at an upload: nothing of the old index and nothing of the input is
\* visible
C20_Witness ==
    /\ overwrite
    /\ resetres = "ok"
    /\ pc = "returned"
    /\ result = "UploadError"
    /\ Cardinality(pubAtStart) = 2
    /\ params.num_docs > 0
    /\ VisibleDocs(meta) = {}

====
